---- MODULE Spec2Model ----
(***************************************************************************)
(* Signal-to-lead pipeline of the HPCL B2B lead intelligence backend:      *)
(* ProductInferenceEngine (app/ml/product_inference.py) and LeadProcessor  *)
(* (app/services/lead_processor.py) over the Company / Source / Lead /     *)
(* Officer tables of app/models/models.py.                                 *)
(*                                                                         *)
(* Strings are TLA+ strings; Python's str operations (in, lower, strip,    *)
(* replace) are computed character by character.  Python floats that hold  *)
(* confidences, urgencies and scores are kept as exact integers in         *)
(* hundredths (0.4 is 40, 30.00 is 3000).  Python None is the string None  *)
(* for text columns and 0 for integer ids (ids start at 1).                *)
(***************************************************************************)
EXTENDS Integers, Sequences, FiniteSets, TLC

None == "<None>"

(* ---------------------------------------------------------------------- *)
(* Python str primitives                                                  *)
(* ---------------------------------------------------------------------- *)
CharAt(s, i) == SubSeq(s, i, i)

\* `kw in text`
Contains(text, kw) ==
  \E i \in 1..(Len(text) - Len(kw) + 1) : SubSeq(text, i, i + Len(kw) - 1) = kw

UPPERCASE == "ABCDEFGHIJKLMNOPQRSTUVWXYZ"
LOWERCASE == "abcdefghijklmnopqrstuvwxyz"

LowerChar(c) ==
  IF \E i \in 1..Len(UPPERCASE) : CharAt(UPPERCASE, i) = c
  THEN CharAt(LOWERCASE, CHOOSE i \in 1..Len(UPPERCASE) : CharAt(UPPERCASE, i) = c)
  ELSE c

RECURSIVE lower(_)
\* str.lower(), character by character (the string is split in halves to keep the recursion shallow)
lower(s) ==
  IF s = "" THEN ""
  ELSE IF Len(s) = 1 THEN LowerChar(s)
  ELSE lower(SubSeq(s, 1, Len(s) \div 2)) \o lower(SubSeq(s, Len(s) \div 2 + 1, Len(s)))

IsSpace(c) == c \in {" ", "\t", "\n", "\r"}

RECURSIVE lstrip(_)
lstrip(s) == IF s # "" /\ IsSpace(Head(s)) THEN lstrip(Tail(s)) ELSE s

RECURSIVE rstrip(_)
rstrip(s) ==
  IF s # "" /\ IsSpace(CharAt(s, Len(s))) THEN rstrip(SubSeq(s, 1, Len(s) - 1)) ELSE s

\* a trim that leaves the string as it is
strip_nothing(s) == s

\* str.strip()
strip(s) == rstrip(lstrip(s))

RECURSIVE remove_spaces(_)
\* str.replace(' ', '')
remove_spaces(s) ==
  IF s = "" THEN ""
  ELSE IF Len(s) = 1 THEN (IF s = " " THEN "" ELSE s)
  ELSE remove_spaces(SubSeq(s, 1, Len(s) \div 2))
         \o remove_spaces(SubSeq(s, Len(s) \div 2 + 1, Len(s)))

RECURSIVE join(_, _)
\* sep.join(parts)
join(parts, sep) ==
  IF parts = <<>> THEN ""
  ELSE IF Len(parts) = 1 THEN parts[1]
  ELSE parts[1] \o sep \o join(Tail(parts), sep)

Max(a, b) == IF a >= b THEN a ELSE b
Min(a, b) == IF a <= b THEN a ELSE b

\* Python round(): num/den to the nearest integer, ties to even (den > 0, num >= 0)
RoundHalfEven(num, den) ==
  LET q == num \div den
      r == num % den
  IN  IF 2 * r > den THEN q + 1
      ELSE IF 2 * r < den THEN q
      ELSE IF q % 2 = 0 THEN q ELSE q + 1

RECURSIVE SumSeq(_)
SumSeq(s) == IF s = <<>> THEN 0 ELSE Head(s) + SumSeq(Tail(s))

(* ---------------------------------------------------------------------- *)
(* fuzz.ratio: 100 * 2*M / (len(a) + len(b)) rounded, M the number of     *)
(* matched characters (longest common subsequence).                       *)
(* ---------------------------------------------------------------------- *)
RECURSIVE LcsRow(_, _, _, _, _)
\* one row of the dynamic program: prev is the row of a[1..i-1], acc the row of a[1..i] so far
\* (the row is measured at each step so that it is computed as it is built)
LcsRow(ch, b, prev, j, acc) ==
  IF j > Len(b) THEN acc
  ELSE LET diag == IF j = 1 THEN 0 ELSE prev[j - 1]
           left == IF j = 1 THEN 0 ELSE acc[j - 1]
           v    == IF ch = CharAt(b, j) THEN diag + 1 ELSE Max(prev[j], left)
           nxt  == Append(acc, v)
       IN  IF nxt[j] >= 0 THEN LcsRow(ch, b, prev, j + 1, nxt) ELSE <<>>

RECURSIVE LcsRows(_, _, _, _)
LcsRows(a, b, i, prev) ==
  IF i > Len(a) THEN prev
  ELSE LET row == LcsRow(CharAt(a, i), b, prev, 1, <<>>)
       IN  IF Len(row) = Len(b) THEN LcsRows(a, b, i + 1, row) ELSE <<>>

LcsLen(a, b) ==
  IF a = "" \/ b = "" THEN 0
  ELSE LcsRows(a, b, 1, [j \in 1..Len(b) |-> 0])[Len(b)]

ratio(a, b) ==
  IF Len(a) + Len(b) = 0 THEN 100
  ELSE RoundHalfEven(100 * 2 * LcsLen(a, b), Len(a) + Len(b))

(* ---------------------------------------------------------------------- *)
(* ProductInferenceEngine                                                 *)
(* ---------------------------------------------------------------------- *)
\* self.product_keywords, in declaration (dict insertion) order
product_keywords == <<
  [product |-> "FO",
   keywords |-> <<"furnace oil", "fuel oil", "fo ", "heavy fuel", "boiler fuel", "industrial fuel">>,
   equipment |-> <<"boiler", "furnace", "kiln", "dryer", "thermal power">>,
   industries |-> <<"power", "textile", "ceramic", "steel", "cement">>],
  [product |-> "HSD",
   keywords |-> <<"high speed diesel", "hsd", "diesel", "auto diesel">>,
   equipment |-> <<"generator", "genset", "diesel generator", "dgset", "vehicle", "truck">>,
   industries |-> <<"logistics", "transport", "construction", "mining", "power backup">>],
  [product |-> "LDO",
   keywords |-> <<"light diesel oil", "ldo", "light fuel">>,
   equipment |-> <<"furnace", "dryer", "small boiler">>,
   industries |-> <<"small industry", "tea estate", "food processing">>],
  [product |-> "LSHS",
   keywords |-> <<"low sulphur heavy stock", "lshs", "low sulfur fuel", "marine fuel">>,
   equipment |-> <<"ship", "vessel", "marine engine">>,
   industries |-> <<"shipping", "marine", "port">>],
  [product |-> "SKO",
   keywords |-> <<"superior kerosene oil", "sko", "kerosene">>,
   equipment |-> <<"burner", "lamp", "heater">>,
   industries |-> <<"domestic", "rural", "heating">>],
  [product |-> "Hexane",
   keywords |-> <<"hexane", "n-hexane", "solvent extraction">>,
   equipment |-> <<"extraction unit", "solvent plant">>,
   industries |-> <<"edible oil", "vegetable oil", "oil extraction", "solvent extraction">>],
  [product |-> "Solvent 1425",
   keywords |-> <<"solvent 1425", "mineral spirits", "paint solvent">>,
   equipment |-> <<"paint plant", "coating unit">>,
   industries |-> <<"paint", "coating", "ink", "resin">>],
  [product |-> "Mineral Turpentine Oil",
   keywords |-> <<"mineral turpentine", "mto", "turpentine oil", "white spirit">>,
   equipment |-> <<"paint mixer", "thinner unit">>,
   industries |-> <<"paint", "varnish", "polish", "cleaning">>],
  [product |-> "Jute Batch Oil",
   keywords |-> <<"jute batching oil", "jbo", "jute oil", "batching oil">>,
   equipment |-> <<"jute mill", "textile machinery">>,
   industries |-> <<"jute", "textile", "jute processing">>],
  [product |-> "Bitumen",
   keywords |-> <<"bitumen", "asphalt", "road tar", "paving material">>,
   equipment |-> <<"paver", "road roller", "hot mix plant">>,
   industries |-> <<"road construction", "highway", "infrastructure", "roofing">>],
  [product |-> "Marine Bunker Fuel",
   keywords |-> <<"bunker fuel", "marine diesel", "ship fuel", "bunker oil">>,
   equipment |-> <<"ship", "vessel", "tanker", "cargo ship">>,
   industries |-> <<"shipping", "marine", "port operations">>],
  [product |-> "Sulphur",
   keywords |-> <<"sulphur", "sulfur", "molten sulphur", "elemental sulfur">>,
   equipment |-> <<"chemical reactor", "fertilizer plant">>,
   industries |-> <<"fertilizer", "chemical", "acid manufacturing">>],
  [product |-> "Propylene",
   keywords |-> <<"propylene", "propene", "polypropylene feedstock">>,
   equipment |-> <<"polymerization unit", "chemical reactor">>,
   industries |-> <<"petrochemical", "plastic", "polymer">>]
>>


SeqToSet(s) == {s[i] : i \in 1..Len(s)}

\* the terms of a list found in the lowered text, in list order
Matched(terms, text_lower) == SelectSeq(terms, LAMBDA t : Contains(text_lower, lower(t)))

KEYWORD_WEIGHT == 40
EQUIPMENT_WEIGHT == 30
INDUSTRY_WEIGHT == 20
CONFIDENCE_CAP == 100

\* Python floats of the scoring loop, as IEEE 754 doubles: the double <<hi, lo>>
\* is (hi * LIMB + lo) * 2^-55, a multiple of the unit 2^-55 held in two limbs
LIMB == 2^30

\* the spacing of the doubles (in units) around a value with high limb hi:
\* 1 below 0.25, 2 below 0.5, 4 below 1.0, 8 below 2.0, 16 below 4.0, 32 below 8.0
Ulp(hi) ==
  IF hi < 2^23 THEN 1 ELSE IF hi < 2^24 THEN 2 ELSE IF hi < 2^25 THEN 4
  ELSE IF hi < 2^26 THEN 8 ELSE IF hi < 2^27 THEN 16 ELSE 32

\* round-half-to-even of hi * LIMB + lo + num / den units to a double
Rounded(hi, lo, num, den) ==
  LET u    == Ulp(hi)
      r    == lo % u
      base == lo - r
      cmp  == 2 * r * den + 2 * num - u * den
      up   == cmp > 0 \/ (cmp = 0 /\ (base \div u) % 2 = 1)
      lo2  == IF up THEN base + u ELSE base
  IN  IF lo2 = LIMB THEN <<hi + 1, 0>> ELSE <<hi, lo2>>

\* the double of a decimal literal given in hundredths: 40 is the literal 0.4
Double(hundredths) ==
  LET a  == hundredths * 2^23
      r0 == a % 25
      d1 == (r0 * 2^15) \div 25
      r1 == (r0 * 2^15) % 25
      d2 == (r1 * 2^15) \div 25
      r2 == (r1 * 2^15) % 25
  IN  Rounded(a \div 25, d1 * 2^15 + d2, r2, 25)

\* a + b on doubles
FloatAdd(a, b) ==
  LET lo == a[2] + b[2]
  IN  Rounded(a[1] + b[1] + lo \div LIMB, lo % LIMB, 0, 1)

\* a < b on doubles
FloatLess(a, b) == a[1] < b[1] \/ (a[1] = b[1] /\ a[2] < b[2])

\* min(a, b) on doubles
FloatMin(a, b) == IF FloatLess(b, a) THEN b ELSE a

\* round(x, 2) of a double up to 2.0, in hundredths
Round2(x) == ((x[1] * 25 + ((x[2] \div 2^10) * 25) \div 2^20) + 2^22) \div 2^23

\* a loop that sets the score to the weight at every match
AccumulateAssign(score, weight, n) == IF n = 0 THEN score ELSE weight

\* `score += weight`, once for each of n matched terms
Accumulate(score, weight, n) ==
  LET sum[k \in 0..n] ==
        IF k = 0 THEN score
        ELSE CHOOSE next \in {FloatAdd(so_far, weight) : so_far \in {sum[k - 1]}} : TRUE
  IN  sum[n]

\* the float literals 0.4, 0.3, 0.2 and 1.0
KEYWORD_DOUBLE == Double(KEYWORD_WEIGHT)
EQUIPMENT_DOUBLE == Double(EQUIPMENT_WEIGHT)
INDUSTRY_DOUBLE == Double(INDUSTRY_WEIGHT)
CAP_DOUBLE == Double(CONFIDENCE_CAP)

\* the length of the longest term list of the taxonomy
MostTerms ==
  CHOOSE n \in 0..Len(product_keywords[1].keywords) + Len(product_keywords[1].equipment) :
    /\ \A p \in 1..Len(product_keywords) :
         /\ Len(product_keywords[p].keywords) <= n
         /\ Len(product_keywords[p].equipment) <= n
         /\ Len(product_keywords[p].industries) <= n
    /\ \E p \in 1..Len(product_keywords) :
         \/ Len(product_keywords[p].keywords) = n
         \/ Len(product_keywords[p].equipment) = n
         \/ Len(product_keywords[p].industries) = n

\* the score of the loop body, from 0, after k keyword, e equipment and i
\* industry matches, in that order
LoopScore ==
  [k \in 0..MostTerms, e \in 0..MostTerms, i \in 0..MostTerms |->
     Accumulate(Accumulate(Accumulate(<<0, 0>>, KEYWORD_DOUBLE, k), EQUIPMENT_DOUBLE, e),
                INDUSTRY_DOUBLE, i)]

\* the body of the per-product loop of analyze_text: the score (a double), the
\* capped score the ranking sorts by, its rounding (hundredths) and the reasons
ProductScore(data, text_lower) ==
  LET kws == Matched(data.keywords, text_lower)
      eqs == Matched(data.equipment, text_lower)
      ins == Matched(data.industries, text_lower)
      Entry(score, capped) ==
        [product  |-> data.product,
         raw      |-> score,
         key      |-> capped,
         score    |-> Round2(capped),
         keywords |-> kws,
         equipment |-> eqs,
         reasons  |-> [k \in 1..Len(kws) |-> "Mentioned '" \o kws[k] \o "'"]
                      \o [k \in 1..Len(eqs) |-> "Equipment: '" \o eqs[k] \o "' detected"]
                      \o [k \in 1..Len(ins) |-> "Industry: '" \o ins[k] \o "' match"]]
      Capped(score) == Entry(score, FloatMin(score, CAP_DOUBLE))
  IN  Capped(LoopScore[Len(kws), Len(eqs), Len(ins)])

\* product_scores: the entries with score > 0, in declaration order
product_scores(text_lower) ==
  SelectSeq([k \in 1..Len(product_keywords) |-> ProductScore(product_keywords[k], text_lower)],
            LAMBDA ps : FloatLess(<<0, 0>>, ps.raw))

RECURSIVE InsertDesc(_, _)
\* x goes after every element whose key is >= its own: a stable descending order
InsertDesc(x, sorted) ==
  IF sorted = <<>> THEN <<x>>
  ELSE IF ~FloatLess(Head(sorted).key, x.key) THEN <<Head(sorted)>> \o InsertDesc(x, Tail(sorted))
  ELSE <<x>> \o sorted

RECURSIVE SortedDesc(_, _)
\* sorted(items, key=score, reverse=True)
SortedDesc(items, acc) ==
  IF items = <<>> THEN acc ELSE SortedDesc(Tail(items), InsertDesc(Head(items), acc))

TOP_N == 3

Take(s, n) == SubSeq(s, 1, Min(n, Len(s)))

high_intent_keywords == <<"tender", "rfq", "quotation", "procurement", "bid", "supply required">>
medium_intent_keywords == <<"expansion", "new plant", "commissioning", "setting up">>

\* an intent that goes by the larger count
calculate_intent_strength_by_count(text) ==
  LET high_count   == Len(Matched(high_intent_keywords, text))
      medium_count == Len(Matched(medium_intent_keywords, text))
  IN  IF high_count > medium_count THEN "high"
      ELSE IF medium_count > 0 THEN "medium"
      ELSE "low"

calculate_intent_strength(text) ==
  LET high_count   == Len(Matched(high_intent_keywords, text))
      medium_count == Len(Matched(medium_intent_keywords, text))
  IN  IF high_count > 0 THEN "high"
      ELSE IF medium_count > 0 THEN "medium"
      ELSE "low"

\* urgency_keywords, scores in hundredths
urgency_keywords == <<
  [keyword |-> "immediate", score |-> 100],
  [keyword |-> "urgent", score |-> 90],
  [keyword |-> "asap", score |-> 90],
  [keyword |-> "this month", score |-> 80],
  [keyword |-> "tender", score |-> 70],
  [keyword |-> "deadline", score |-> 70],
  [keyword |-> "soon", score |-> 60],
  [keyword |-> "upcoming", score |-> 50]
>>

RECURSIVE MaxUrgency(_, _, _)
MaxUrgency(entries, text, max_urgency) ==
  IF entries = <<>> THEN max_urgency
  ELSE MaxUrgency(Tail(entries), text,
                  IF Contains(text, Head(entries).keyword)
                  THEN Max(max_urgency, Head(entries).score) ELSE max_urgency)

calculate_urgency(text) == MaxUrgency(urgency_keywords, text, 0)

RECURSIVE FlattenSeq(_)
FlattenSeq(ss) == IF ss = <<>> THEN <<>> ELSE Head(ss) \o FlattenSeq(Tail(ss))

analyze_text(text) ==
  LET text_lower == lower(text)
      \* the terms of a product that matched are those of an entry of
      \* product_scores: a match adds a positive weight to the score
      Result(scored, sorted_products) ==
        [recommended_products |->
           [k \in 1..Len(sorted_products) |->
              [product |-> sorted_products[k].product,
               confidence |-> sorted_products[k].score,
               reason |-> join(sorted_products[k].reasons, "; ")]],
         detected_keywords  |->
           SeqToSet(FlattenSeq([k \in 1..Len(scored) |-> scored[k].keywords])),
         detected_equipment |->
           SeqToSet(FlattenSeq([k \in 1..Len(scored) |-> scored[k].equipment])),
         intent_strength |-> calculate_intent_strength(text_lower),
         urgency_score   |-> calculate_urgency(text_lower)]
      Ranked(scored) == Result(scored, Take(SortedDesc(scored, <<>>), TOP_N))
  IN  Ranked(product_scores(text_lower))

\* an intent table that values medium as low
intent_scores_medium_as_low(intent) ==
  CASE intent = "high" -> 30 [] intent = "medium" -> 10 [] intent = "low" -> 10 [] OTHER -> 10

intent_scores(intent) ==
  CASE intent = "high" -> 30 [] intent = "medium" -> 20 [] intent = "low" -> 10 [] OTHER -> 10

\* a size table whose default is that of the smallest size
size_scores_small_default(company_size) ==
  CASE company_size = "enterprise" -> 10 [] company_size = "large" -> 8
    [] company_size = "medium" -> 6 [] company_size = "small" -> 4 [] OTHER -> 4

size_scores(company_size) ==
  CASE company_size = "enterprise" -> 10 [] company_size = "large" -> 8
    [] company_size = "medium" -> 6 [] company_size = "small" -> 4 [] OTHER -> 6

SCORE_CAP == 100

\* a scoring that adds the confidences up instead of averaging them, uncapped
calculate_lead_score_summed(analysis, company_size) ==
  40 * SumSeq([k \in 1..Len(analysis.recommended_products) |->
                   analysis.recommended_products[k].confidence])
    + 100 * intent_scores(analysis.intent_strength)
    + 20 * analysis.urgency_score + 100 * size_scores(company_size)

\* composite lead score in hundredths of a point: round(min(total, 100), 2)
calculate_lead_score(analysis, company_size) ==
  LET recs == analysis.recommended_products
      n    == Len(recs)
      den  == IF n = 0 THEN 1 ELSE n
      \* total * 100 * den, exactly: avg_confidence * 40 is 40 * sum / n hundredths
      conf_num == IF n = 0 THEN 0
                  ELSE 40 * SumSeq([k \in 1..n |-> recs[k].confidence])
      rest == 100 * intent_scores(analysis.intent_strength)
                + 20 * analysis.urgency_score + 100 * size_scores(company_size)
      total_num == conf_num + den * rest
      capped_num == Min(total_num, 100 * SCORE_CAP * den)
  IN  RoundHalfEven(capped_num, den)

\* the gazetteer of extract_location
states == <<"Maharashtra", "Gujarat", "Tamil Nadu", "Karnataka", "Delhi", "Uttar Pradesh",
            "West Bengal", "Rajasthan", "Madhya Pradesh", "Andhra Pradesh", "Telangana",
            "Kerala", "Punjab", "Haryana", "Bihar", "Odisha", "Assam", "Jharkhand">>

extract_location(text) == Matched(states, lower(text))

(* ---------------------------------------------------------------------- *)
(* Signals (the dicts handed to process_signal) and the database session  *)
(* ---------------------------------------------------------------------- *)
HasKey(d, k) == k \in DOMAIN d

\* dict.get(k, default)
Get(d, k, default) == IF HasKey(d, k) THEN d[k] ELSE default

\* Python truthiness of an optional string
Truthy(v) == v # None /\ v # ""

\* `a or b`
Or(a, b) == IF Truthy(a) THEN a ELSE b

\* The session: the committed tables (row id = position), the writes added or
\* changed since the last commit, and the log of the statements of this call.
\* A pending write is [table, id (0 for an insert), row].
EmptyPending == <<>>

Log(db, what) == [db EXCEPT !.log = Append(@, what)]

\* the write that is made to fail in this call, if the call reaches it
Fails(fault, what) == fault = what

\* db.add(row) / a changed attribute of a loaded row
db_add(db, table, id, row) ==
  [db EXCEPT !.pending = Append(@, [table |-> table, id |-> id, row |-> row])]

\* a write that lands on the last row of its table, insert or not
ApplyWrite_on_last(db, w) ==
  IF db[w.table] = <<>> THEN [db EXCEPT ![w.table] = <<w.row>>]
  ELSE [db EXCEPT ![w.table][Len(db[w.table])] = w.row]

ApplyWrite(db, w) ==
  IF w.id = 0 THEN [db EXCEPT ![w.table] = Append(@, w.row)]
  ELSE [db EXCEPT ![w.table][w.id] = w.row]

RECURSIVE ApplyWrites(_, _)
ApplyWrites(db, ws) ==
  IF ws = <<>> THEN db ELSE ApplyWrites(ApplyWrite(db, Head(ws)), Tail(ws))

\* a schema that constrains nothing
ViolatesConstraint_never(db, w) == FALSE

\* the constraints of models.py that an INSERT can violate
ViolatesConstraint(db, w) ==
  \/ /\ w.table = "companies"
     /\ w.id = 0
     /\ \/ w.row.name = None
        \/ \E i \in 1..Len(db.companies) : db.companies[i].name = w.row.name
  \/ /\ w.table = "sources"
     /\ w.id = 0
     /\ \/ w.row.domain = None
        \/ \E i \in 1..Len(db.sources) : db.sources[i].domain = w.row.domain
  \/ /\ w.table = "leads"
     /\ w.id = 0
     /\ \/ w.row.company_id = 0
        \/ w.row.source_id = 0
        \/ w.row.signal_text = None

\* db.commit(): [db, exc]; what names the commit for the log and the fault
db_commit(db, what, fault) ==
  LET logged == Log(db, what)
  IN  IF Fails(fault, what) \/ \E k \in 1..Len(db.pending) : ViolatesConstraint(db, db.pending[k])
      THEN [db |-> logged, exc |-> TRUE]
      ELSE [db |-> [ApplyWrites(logged, db.pending) EXCEPT !.pending = EmptyPending],
            exc |-> FALSE]

\* db.rollback()
db_rollback(db) == [Log(db, "rollback") EXCEPT !.pending = EmptyPending]

\* a query that finds no row
FirstId_none(hits) == 0

\* .filter(...).first(): a table is held in the order the database yields its
\* rows, and `hits` are the positions of the rows the filter keeps. The
\* companies and sources tables are scanned in primary-key order (id = position);
\* an officers row carries its id.
FirstId(hits) ==
  IF hits # {} THEN CHOOSE i \in hits : \A j \in hits : i <= j
  ELSE 0

(* ---------------------------------------------------------------------- *)
(* The store the pipeline starts from and the signals it is fed           *)
(* ---------------------------------------------------------------------- *)
\* rows of DemoDataGenerator.create_companies
SeedCompanies == <<
  [name |-> "Tata Steel Limited", normalized_name |-> "tatasteel", industry |-> "Steel",
   city |-> "Mumbai", state |-> "Maharashtra", website |-> "https://www.tatasteel.com",
   company_size |-> "enterprise"],
  [name |-> "Asian Paints", normalized_name |-> "asianpaints", industry |-> "Paints",
   city |-> "Mumbai", state |-> "Maharashtra", website |-> "https://www.asianpaints.com",
   company_size |-> "large"]
>>

\* a row of DemoDataGenerator.create_sources
SeedSources == <<
  [domain |-> "gem.gov.in", url |-> "https://gem.gov.in/tender", category |-> "tender",
   trust_score |-> 100, is_active |-> TRUE, last_crawled |-> 0]
>>

\* rows of DemoDataGenerator.create_officers
SeedOfficers == <<
  [id |-> 1, name |-> "Rajesh Kumar", email |-> "rajesh.kumar@hpcl.co.in",
   territory_state |-> "Maharashtra", is_active |-> TRUE, notification_enabled |-> TRUE],
  [id |-> 2, name |-> "Priya Sharma", email |-> "priya.sharma@hpcl.co.in",
   territory_state |-> "Gujarat", is_active |-> TRUE, notification_enabled |-> TRUE]
>>

\* Signals as the scrapers emit them (gem_scraper.py), and malformed ones.
Signals == <<
  \* GeMScraper.scrape_tenders, first tender
  [company_name |-> "National Thermal Power Corporation Ltd",
   signal_text |-> "NTPC Rihand invites tenders for supply of 5000 MT Furnace Oil for boiler operations. Requirement for power generation unit. Delivery required by March 2026.",
   signal_url |-> "https://gem.gov.in/tender/NTPC-2026-FO-001",
   signal_type |-> "tender",
   source_domain |-> "gem.gov.in",
   location |-> "Sonebhadra, Uttar Pradesh"],
  \* EconomicTimesScraper.scrape_industry_news, Asian Paints: matches the seeded
  \* "Asian Paints" (similarity 88), a large company: the score is exactly 30.00
  [company_name |-> "Asian Paints Ltd",
   signal_text |-> "Asian Paints announces new manufacturing facility in Gujarat. Plant to produce decorative coatings with capacity of 400 million liters. Requires solvents and petroleum derivatives.",
   signal_url |-> "https://economictimes.indiatimes.com/industry/paints/asian-paints-new-plant",
   signal_type |-> "news",
   source_domain |-> "economictimes.indiatimes.com"],
  \* the same article under a name whose similarity to "asianpaints" is exactly 85
  [company_name |-> "Asian Paints Ltd.",
   signal_text |-> "Asian Paints announces new manufacturing facility in Gujarat. Plant to produce decorative coatings with capacity of 400 million liters. Requires solvents and petroleum derivatives.",
   signal_url |-> "https://economictimes.indiatimes.com/industry/paints/asian-paints-new-plant",
   signal_type |-> "news",
   source_domain |-> "economictimes.indiatimes.com"],
  \* an exact-name match whose text matches no taxonomy term
  [company_name |-> "Tata Steel Limited",
   signal_text |-> "Quarterly results announced; revenue up 12 percent.",
   signal_type |-> "news",
   source_domain |-> "gem.gov.in",
   state |-> "Maharashtra"],
  \* a name that is empty after trimming
  [company_name |-> "   ",
   signal_text |-> "Tender for supply of furnace oil.",
   source_domain |-> "gem.gov.in"],
  \* a signal with no source_domain: company name, text and state only
  [company_name |-> "Adani Power Ltd",
   signal_text |-> "Adani Power plans 500MW expansion requiring furnace oil for boiler operations, tender expected Q2",
   state |-> "Gujarat"],
  \* a state of its own, a company of another state, a text that names a third
  [company_name |-> "Tata Steel Limited",
   signal_text |-> "Tata Steel invites tender for supply of furnace oil for its Karnataka plant.",
   signal_type |-> "tender",
   source_domain |-> "gem.gov.in",
   state |-> "Gujarat"],
  \* an empty state, a new company, a text that names two states
  [company_name |-> "Kanoria Chemicals",
   signal_text |-> "Tender for supply of furnace oil to the boiler house of the Rajasthan and Gujarat works.",
   signal_type |-> "tender",
   source_domain |-> "gem.gov.in",
   state |-> ""]
>>

SignalIds == 1..Len(Signals)

\* company names handed to the resolver on its own: one that an existing row
\* matches exactly, one that matches fuzzily, a new one and its variants in
\* case, in spaces and in a tab, and the empty ones
ResolveNames ==
  {"Tata Steel Limited", "Asian Paints Ltd", "B P", " b  p ", "B\tP", "", "  "}

\* signal_data as the resolver reads it: company_name, or no such key
ResolveInputs ==
  {[company_name |-> n] : n \in ResolveNames} \cup {[signal_type |-> "news"]}

\* analyze_text and fuzz.ratio are pure: their values on the texts and names of
\* Signals and of the seeded store are computed once
SignalTexts ==
  {Signals[i].signal_text : i \in {j \in SignalIds : HasKey(Signals[j], "signal_text")}}

AnalysisCache == [t \in SignalTexts |-> analyze_text(t)]

\* self.inference_engine.analyze_text(text)
analyze(text) == IF text \in SignalTexts THEN AnalysisCache[text] ELSE analyze_text(text)

\* company_name.lower().replace(' ', '')
normalize(company_name) == remove_spaces(lower(company_name))

\* the normalized names the store can hold: the seeded ones and those of the signals
KnownNames ==
  {Or(SeedCompanies[i].normalized_name, "") : i \in 1..Len(SeedCompanies)}
    \cup {normalize(strip(Signals[i].company_name)) :
            i \in {j \in SignalIds : Get(Signals[j], "company_name", None) # None}}
    \cup {normalize(strip(n)) : n \in ResolveNames}

RatioCache == [a \in KnownNames, b \in KnownNames |-> ratio(a, b)]

\* fuzz.ratio(a, b)
fuzz_ratio(a, b) ==
  IF a \in KnownNames /\ b \in KnownNames THEN RatioCache[a, b] ELSE ratio(a, b)

LocationCache == [t \in SignalTexts |-> extract_location(t)]

\* self.inference_engine.extract_location(text)
locate(text) == IF text \in SignalTexts THEN LocationCache[text] ELSE extract_location(text)

(* ---------------------------------------------------------------------- *)
(* LeadProcessor                                                          *)
(* ---------------------------------------------------------------------- *)
FUZZY_THRESHOLD == 85

\* a loop test that accepts no row
FuzzyMatch_never(similarity) == FALSE

\* a loop test that admits the threshold itself
FuzzyMatchInclusive(similarity) == similarity >= FUZZY_THRESHOLD

\* the test of the fuzzy loop
FuzzyMatch(similarity) == similarity > FUZZY_THRESHOLD

\* [db, val (company id, 0 for None), exc]
find_or_create_company(db, signal_data, fault) ==
  LET raw == Get(signal_data, "company_name", "")
  IN
  IF raw = None THEN [db |-> db, val |-> 0, exc |-> TRUE]   \* None.strip()
  ELSE
  LET company_name == strip(raw)
      normalized_name == normalize(company_name)
      db1 == Log(db, "company_query")
      exact == FirstId({k \in 1..Len(db1.companies) : db1.companies[k].name = company_name})
      fuzzy == FirstId({k \in 1..Len(db1.companies) :
                         FuzzyMatch(fuzz_ratio(normalized_name,
                                               Or(db1.companies[k].normalized_name, "")))})
      company == [name |-> company_name,
                  normalized_name |-> normalized_name,
                  industry |-> Get(signal_data, "industry", None),
                  city |-> Get(signal_data, "location", None),
                  state |-> Get(signal_data, "state", None),
                  website |-> Get(signal_data, "website", None),
                  company_size |-> None]
      c == db_commit(db_add(db1, "companies", 0, company), "company_commit", fault)
  IN
  IF company_name = "" THEN [db |-> db, val |-> 0, exc |-> FALSE]
  ELSE IF Fails(fault, "company_query") THEN [db |-> db1, val |-> 0, exc |-> TRUE]
  ELSE IF exact # 0 THEN [db |-> db1, val |-> exact, exc |-> FALSE]
  ELSE IF fuzzy # 0 THEN [db |-> db1, val |-> fuzzy, exc |-> FALSE]
  ELSE IF c.exc THEN [db |-> c.db, val |-> 0, exc |-> TRUE]
  ELSE [db |-> c.db, val |-> Len(c.db.companies), exc |-> FALSE]

\* a source that keeps the time it was last crawled at
stamp_never(source, now) == source

\* source.last_crawled = datetime.utcnow()
stamp(source, now) == [source EXCEPT !.last_crawled = now]

\* [db, val (source id), exc]
get_or_create_source(db, domain, now, fault) ==
  LET db1 == Log(db, "source_query")
      found == FirstId({k \in 1..Len(db1.sources) : db1.sources[k].domain = domain})
      source == [domain |-> domain,
                 url |-> IF domain = None THEN "https://None" ELSE "https://" \o domain,
                 category |-> "unknown",
                 trust_score |-> 50,
                 is_active |-> TRUE,
                 last_crawled |-> 0]
      c == IF found # 0 THEN [db |-> db1, exc |-> FALSE]
           ELSE db_commit(db_add(db1, "sources", 0, source), "source_commit", fault)
      id == IF found # 0 THEN found ELSE Len(c.db.sources)
  IN
  IF c.exc THEN [db |-> c.db, val |-> 0, exc |-> TRUE]
  ELSE
  LET stamped == stamp(c.db.sources[id], now)
      c2 == db_commit(db_add(c.db, "sources", id, stamped), "stamp_commit", fault)
  IN  [db |-> c2.db, val |-> IF c2.exc THEN 0 ELSE id, exc |-> c2.exc]

\* the row of the officer with this id
OfficerById(officers, id) ==
  officers[CHOOSE k \in 1..Len(officers) : officers[k].id = id]

\* officer id, 0 for None
assign_officer(officers, state) ==
  LET officer == FirstId({k \in 1..Len(officers) :
                           officers[k].territory_state = state /\ officers[k].is_active})
      fallback == FirstId({k \in 1..Len(officers) : officers[k].is_active})
  IN  IF officer # 0 THEN officers[officer].id
      ELSE IF fallback # 0 THEN officers[fallback].id
      ELSE 0

\* a step function whose thresholds are exclusive
calculate_urgency_days_exclusive(urgency_score) ==
  IF urgency_score > 80 THEN 7
  ELSE IF urgency_score > 60 THEN 14
  ELSE IF urgency_score > 40 THEN 30
  ELSE 60

calculate_urgency_days(urgency_score) ==
  IF urgency_score >= 80 THEN 7
  ELSE IF urgency_score >= 60 THEN 14
  ELSE IF urgency_score >= 40 THEN 30
  ELSE 60

suggest_next_action(analysis) ==
  IF analysis.intent_strength = "high"
  THEN "Contact immediately - High intent signal detected (tender/procurement)"
  ELSE IF analysis.intent_strength = "medium"
  THEN "Schedule call within 3 days - Expansion/new facility signal"
  ELSE "Research company and prepare pitch - General signal"

\* EmailService.send_lead_alert: True if sent, False if the SMTP exchange failed
send_lead_alert(fault) == ~Fails(fault, "smtp")

\* a notification whose failed delivery takes the lead back
send_lead_notification_strict(db, lead_id, officer_id, fault) ==
  IF Fails(fault, "smtp")
  THEN [Log(Log(db, "smtp"), "rollback") EXCEPT !.leads = SubSeq(@, 1, lead_id - 1)]
  ELSE [Log(db, "smtp") EXCEPT
          !.outbox = Append(@, [lead_id |-> lead_id, officer_id |-> officer_id,
                                sent |-> TRUE])]

\* _send_lead_notification: the request handed to the email service; nothing propagates
send_lead_notification(db, lead_id, officer_id, fault) ==
  [Log(db, "smtp") EXCEPT
     !.outbox = Append(@, [lead_id |-> lead_id, officer_id |-> officer_id,
                           sent |-> send_lead_alert(fault)])]

SCORE_GATE == 3000

\* a gate that lets 20 points through
BelowGateLowered(lead_score) == lead_score < 2000

\* a gate that turns 30.00 itself down
BelowGateInclusive(lead_score) == lead_score <= SCORE_GATE

\* `if lead_score < 30`: the signal is skipped
BelowGate(lead_score) == lead_score < SCORE_GATE

\* `if not analysis['recommended_products']`: the signal is skipped
NoRecommendations(analysis) == analysis.recommended_products = <<>>

\* what process_signal hands back: a lead id, or None
ReturnId(lead_id) == [kind |-> "id", id |-> lead_id]
ReturnNone == [kind |-> "none", id |-> 0]

\* a call's account: the session, the returned value, why, and the resolved rows
Outcome(db, result, outcome, company_id, source_id) ==
  [db |-> db, result |-> result, outcome |-> outcome,
   company_id |-> company_id, source_id |-> source_id]

\* a handler that rolls back and lets the exception through
except_handler_reraise(db, company_id, source_id) ==
  Outcome(db_rollback(db), [kind |-> "raised", id |-> 0], "error", company_id, source_id)

\* the except clause of process_signal: log, rollback, return None
except_handler(db, company_id, source_id) ==
  Outcome(db_rollback(db), ReturnNone, "error", company_id, source_id)

\* a Lead whose company_id column is given the source's id
new_lead_crossed(signal_data, company_id, source_id, analysis, lead_score, locations, territory_state, assigned_officer, now) ==
  [company_id |-> source_id,
   source_id |-> source_id,
   signal_text |-> signal_data["signal_text"],
   signal_url |-> Get(signal_data, "signal_url", None),
   signal_date |-> now,
   signal_type |-> Get(signal_data, "signal_type", "unknown"),
   detected_keywords |-> analysis.detected_keywords,
   detected_equipment |-> analysis.detected_equipment,
   detected_locations |-> locations,
   recommended_products |-> analysis.recommended_products,
   lead_score |-> lead_score,
   intent_strength |-> analysis.intent_strength,
   urgency_days |-> calculate_urgency_days(analysis.urgency_score),
   confidence |-> IF analysis.recommended_products # <<>>
                  THEN analysis.recommended_products[1].confidence ELSE 0,
   assigned_officer_id |-> assigned_officer,
   territory_state |-> territory_state,
   status |-> "new",
   next_action |-> suggest_next_action(analysis)]

\* Lead(...) of step 7
new_lead(signal_data, company_id, source_id, analysis, lead_score, locations, territory_state, assigned_officer, now) ==
  [company_id |-> company_id,
   source_id |-> source_id,
   signal_text |-> signal_data["signal_text"],
   signal_url |-> Get(signal_data, "signal_url", None),
   signal_date |-> now,
   signal_type |-> Get(signal_data, "signal_type", "unknown"),
   detected_keywords |-> analysis.detected_keywords,
   detected_equipment |-> analysis.detected_equipment,
   detected_locations |-> locations,
   recommended_products |-> analysis.recommended_products,
   lead_score |-> lead_score,
   intent_strength |-> analysis.intent_strength,
   urgency_days |-> calculate_urgency_days(analysis.urgency_score),
   confidence |-> IF analysis.recommended_products # <<>>
                  THEN analysis.recommended_products[1].confidence ELSE 0,
   assigned_officer_id |-> assigned_officer,
   territory_state |-> territory_state,
   status |-> "new",
   next_action |-> suggest_next_action(analysis)]

\* steps 7 and 8 with a notification for every assigned officer, enabled or not
persist_lead_notify_all(db, officers, lead, fault) ==
  LET c == db_commit(db_add(db, "leads", 0, lead), "lead_commit", fault)
      lead_id == Len(c.db.leads)
      officer == lead.assigned_officer_id
  IN  IF c.exc THEN except_handler(c.db, lead.company_id, lead.source_id)
      ELSE Outcome(IF officer # 0
                   THEN send_lead_notification(c.db, lead_id, officer, fault)
                   ELSE c.db,
                   ReturnId(lead_id), "created", lead.company_id, lead.source_id)

\* steps 7 and 8: add, commit, refresh, notify, return lead.id
persist_lead(db, officers, lead, fault) ==
  LET c == db_commit(db_add(db, "leads", 0, lead), "lead_commit", fault)
      lead_id == Len(c.db.leads)
      officer == lead.assigned_officer_id
  IN  IF c.exc THEN except_handler(c.db, lead.company_id, lead.source_id)
      ELSE Outcome(IF officer # 0 /\ OfficerById(officers, officer).notification_enabled
                   THEN send_lead_notification(c.db, lead_id, officer, fault)
                   ELSE c.db,
                   ReturnId(lead_id), "created", lead.company_id, lead.source_id)

\* a territory that prefers the company's state to the signal's
territory_company_first(signal_data, company, locations) ==
  Or(company.state,
     Or(Get(signal_data, "state", None), IF locations # <<>> THEN locations[1] ELSE None))

\* signal_data.get('state') or company.state or (locations[0] if locations else None)
territory(signal_data, company, locations) ==
  Or(Get(signal_data, "state", None),
     Or(company.state, IF locations # <<>> THEN locations[1] ELSE None))

\* steps 3 to 8 of the try block: company and source are resolved
process_resolved(db, officers, signal_data, company_id, source_id, now, fault) ==
  LET text == signal_data["signal_text"]
      company == db.companies[company_id]
      company_size == Or(company.company_size, "medium")
      locations == locate(text)
      territory_state == territory(signal_data, company, locations)
      assigned_officer == IF Truthy(territory_state)
                          THEN assign_officer(officers, territory_state) ELSE 0
      Scored(analysis, lead_score) ==
        IF NoRecommendations(analysis)
          THEN Outcome(Log(db, "analyze"), ReturnNone, "no_recommendations",
                       company_id, source_id)
        ELSE IF BelowGate(lead_score)
          THEN Outcome(Log(db, "analyze"), ReturnNone, "low_score", company_id, source_id)
        ELSE persist_lead(Log(db, "analyze"), officers,
                          new_lead(signal_data, company_id, source_id, analysis, lead_score,
                                   locations, territory_state, assigned_officer, now),
                          fault)
      Analyzed(analysis) == Scored(analysis, calculate_lead_score(analysis, company_size))
  IN
  IF ~HasKey(signal_data, "signal_text") \/ text = None
    THEN except_handler(db, company_id, source_id)          \* KeyError / None.lower()
  ELSE Analyzed(analyze(text))

\* step 2 of the try block: the company is resolved
process_with_company(co, officers, signal_data, now, fault) ==
  IF co.exc THEN except_handler(co.db, 0, 0)
  ELSE IF co.val = 0 THEN Outcome(co.db, ReturnNone, "no_company", 0, 0)
  ELSE IF ~HasKey(signal_data, "source_domain")
    THEN except_handler(co.db, co.val, 0)                    \* KeyError
  ELSE
  LET so == get_or_create_source(co.db, signal_data["source_domain"], now, fault)
  IN  IF so.exc THEN except_handler(so.db, co.val, 0)
      ELSE IF so.val = 0 THEN Outcome(so.db, ReturnNone, "no_source", co.val, 0)
      ELSE process_resolved(so.db, officers, signal_data, co.val, so.val, now, fault)

\* process_signal(signal_data) on the session db0 at time now
process_signal(db0, officers, signal_data, now, fault) ==
  process_with_company(
    find_or_create_company([db0 EXCEPT !.log = <<>>], signal_data, fault),
    officers, signal_data, now, fault)

(* ---------------------------------------------------------------------- *)
(* batch_process_signals: the loop body and the returned counters         *)
(* ---------------------------------------------------------------------- *)
ZeroResults == [processed |-> 0, created |-> 0, skipped |-> 0, errors |-> 0]

\* `if lead_id:`
IsLeadId(result) == result.kind = "id" /\ result.id # 0

\* a loop body that counts only the leads
batch_count_created_only(results, result) ==
  IF IsLeadId(result) THEN [results EXCEPT !.processed = @ + 1, !.created = @ + 1]
  ELSE results

\* one iteration: results after process_signal returned `result`
batch_count(results, result) ==
  LET counted == [results EXCEPT !.processed = @ + 1]
  IN  IF IsLeadId(result) THEN [counted EXCEPT !.created = @ + 1]
      ELSE [counted EXCEPT !.skipped = @ + 1]

(* ---------------------------------------------------------------------- *)
(* The state machine                                                      *)
(* ---------------------------------------------------------------------- *)
\* the statements a call can be made to fail at
Faults == {"none", "company_query", "company_commit", "source_commit", "stamp_commit",
           "lead_commit", "smtp"}

\* the number of process_signal calls of a run
MaxCalls == 2

\* inputs of calculate_lead_score, in hundredths
ProbeConfidences == {0, 20, 50, 100}
ProbeUrgencies == {0, 50, 100}
ProbeIntents == {"high", "medium", "low", "unknown"}
ProbeSizes == {"enterprise", "large", "medium", "small", "micro", None}

VARIABLES
  companies,   \* the companies table (committed rows, id = position)
  sources,     \* the sources table
  leads,       \* the leads table
  outbox,      \* the notification requests handed to the email service
  officers,    \* the officers table (read-only to the pipeline)
  clock,       \* datetime.utcnow(), one tick per process_signal call
  last,        \* the last call: signal, fault, result, outcome, resolved rows, statement log
  batch,       \* the running batch_process_signals call and its counters
  probe        \* a direct call of calculate_lead_score: its arguments and its value

vars == <<companies, sources, leads, outbox, officers, clock, last, batch, probe>>

Session == [companies |-> companies, sources |-> sources, leads |-> leads,
            outbox |-> outbox, pending |-> EmptyPending, log |-> <<>>]

IdleBatch == [status |-> "idle", todo |-> 0, size |-> 0, results |-> ZeroResults,
              leads_before |-> 0, leads_after |-> 0, failed |-> 0, rejected |-> 0]

NoProbe == [status |-> "none"]

Store ==
  /\ companies = SeedCompanies
  /\ sources = SeedSources
  /\ leads = <<>>
  /\ outbox = <<>>
  /\ officers = SeedOfficers
  /\ clock = 0
  /\ last = [signal |-> 0, fault |-> "none", result |-> ReturnNone, outcome |-> "init",
             company_id |-> 0, source_id |-> 0, log |-> <<>>]
  /\ batch = IdleBatch

Init == Store /\ probe = NoProbe

\* the fault is one this call runs into
Reached(fault, r) == fault = "none" \/ \E k \in 1..Len(r.db.log) : r.db.log[k] = fault

\* one call process_signal(Signals[i]) with the statement `fault` failing
Call(i, fault, r) ==
  /\ clock < MaxCalls
  /\ Reached(fault, r)
  /\ companies' = r.db.companies
  /\ sources' = r.db.sources
  /\ leads' = r.db.leads
  /\ outbox' = r.db.outbox
  /\ clock' = clock + 1
  /\ last' = [signal |-> i, fault |-> fault, result |-> r.result, outcome |-> r.outcome,
              company_id |-> r.company_id, source_id |-> r.source_id, log |-> r.db.log]
  /\ UNCHANGED <<officers, probe>>

\* ScraperScheduler.run_all_scrapers: processor.process_signal(signal)
ProcessSignal ==
  /\ batch.status # "running"
  /\ \E i \in SignalIds, fault \in Faults :
       Call(i, fault, process_signal(Session, officers, Signals[i], clock + 1, fault))
  /\ UNCHANGED batch

\* batch_process_signals(signals) is entered with a list of n signals
BatchStart ==
  /\ batch.status # "running"
  /\ \E n \in 1..(MaxCalls - clock) :
       batch' = [status |-> "running", todo |-> n, size |-> n, results |-> ZeroResults,
                 leads_before |-> Len(leads), leads_after |-> 0, failed |-> 0,
                 rejected |-> 0]
  /\ UNCHANGED <<companies, sources, leads, outbox, officers, clock, last, probe>>

\* the loop variables after process_signal returned (or raised) for one signal
batch_iteration(b, r) ==
  IF r.result.kind = "raised"
  THEN [b EXCEPT !.status = "raised", !.results.processed = @ + 1]
  ELSE [b EXCEPT !.todo = @ - 1,
                 !.results = batch_count(@, r.result),
                 !.failed = @ + (IF r.outcome = "error" THEN 1 ELSE 0),
                 !.rejected = @ + (IF r.outcome \in {"no_company", "no_recommendations",
                                                     "low_score"} THEN 1 ELSE 0)]

\* one iteration of the for loop
BatchStep ==
  /\ batch.status = "running"
  /\ batch.todo > 0
  /\ \E i \in SignalIds, fault \in Faults :
       \E r \in {process_signal(Session, officers, Signals[i], clock + 1, fault)} :
         /\ Call(i, fault, r)
         /\ batch' = batch_iteration(batch, r)

\* the loop is over: return results
BatchEnd ==
  /\ batch.status = "running"
  /\ batch.todo = 0
  /\ batch' = [batch EXCEPT !.status = "returned", !.leads_after = Len(leads)]
  /\ UNCHANGED <<companies, sources, leads, outbox, officers, clock, last, probe>>

Next == ProcessSignal \/ BatchStart \/ BatchStep \/ BatchEnd

Spec == Init /\ [][Next]_vars

\* calculate_lead_score called on its own, on arguments drawn from the Probe sets
ProbeInputs ==
  {[status |-> "input", confidences |-> cs, intent_strength |-> it, urgency_score |-> u,
    company_size |-> sz, score |-> 0] :
     cs \in UNION {[1..n -> ProbeConfidences] : n \in 0..TOP_N},
     it \in ProbeIntents, u \in ProbeUrgencies, sz \in ProbeSizes}

ProbeAnalysis(p) ==
  [recommended_products |->
     [k \in 1..Len(p.confidences) |->
        [product |-> "FO", confidence |-> p.confidences[k], reason |-> ""]],
   detected_keywords |-> {}, detected_equipment |-> {},
   intent_strength |-> p.intent_strength, urgency_score |-> p.urgency_score]

\* company_size = company.company_size or "medium" (step 4)
ScoreCall ==
  /\ probe.status = "input"
  /\ probe' = [probe EXCEPT
       !.status = "output",
       !.score = calculate_lead_score(ProbeAnalysis(probe), Or(probe.company_size, "medium"))]
  /\ UNCHANGED <<companies, sources, leads, outbox, officers, clock, last, batch>>

\* urgency scores (hundredths) at, below and above every threshold
ProbeUrgencyScores == {0, 39, 40, 41, 59, 60, 61, 79, 80, 81, 100}

\* _calculate_urgency_days called on its own, on two urgency scores
UrgencyInputs ==
  {[status |-> "urgency", urgency_score |-> <<a, b>>, urgency_days |-> <<0, 0>>] :
     a \in ProbeUrgencyScores, b \in ProbeUrgencyScores}

UrgencyDaysCall ==
  /\ probe.status = "urgency"
  /\ probe' = [probe EXCEPT
       !.status = "days",
       !.urgency_days = [k \in 1..2 |-> calculate_urgency_days(probe.urgency_score[k])]]
  /\ UNCHANGED <<companies, sources, leads, outbox, officers, clock, last, batch>>

InitScore == Store /\ probe \in ProbeInputs \cup UrgencyInputs \cup {NoProbe}

NextScore == ScoreCall \/ UrgencyDaysCall \/ (probe = NoProbe /\ Next)

SpecScore == InitScore /\ [][NextScore]_vars

\* the number of resolver calls made in succession
MaxResolves == 2

\* _find_or_create_company called on its own, on a run of inputs
ResolveRuns ==
  {[status |-> "resolving", todo |-> t, done |-> <<>>, ids |-> <<>>, raised |-> <<>>,
    rows |-> <<>>] :
     t \in UNION {[1..n -> ResolveInputs] : n \in 1..MaxResolves}}

\* company = self._find_or_create_company(signal_data), then the next input
ResolveCall ==
  /\ probe.status = "resolving"
  /\ probe.todo # <<>>
  /\ LET r == find_or_create_company(Session, Head(probe.todo), "none")
     IN  /\ companies' = r.db.companies
         /\ probe' = [probe EXCEPT !.todo = Tail(@),
                                   !.done = Append(@, Head(probe.todo)),
                                   !.ids = Append(@, r.val),
                                   !.raised = Append(@, r.exc),
                                   !.rows = Append(@, Len(r.db.companies))]
  /\ UNCHANGED <<sources, leads, outbox, officers, clock, last, batch>>

InitResolve == Store /\ probe \in ResolveRuns \cup {NoProbe}

NextResolve == ResolveCall \/ (probe = NoProbe /\ Next)

SpecResolve == InitResolve /\ [][NextResolve]_vars

\* the number of rows of an officers table
MaxOfficers == 2

\* officers tables: rows with distinct ids, in the order the database yields
\* them, each officer active or not, in one of two territories
OfficerRows ==
  [id : 1..MaxOfficers, territory_state : {"Gujarat", "Maharashtra"},
   is_active : BOOLEAN, notification_enabled : {TRUE}]

OfficerTables ==
  {t \in UNION {[1..n -> OfficerRows] : n \in 0..MaxOfficers} :
     \A i \in 1..Len(t) : \A j \in 1..Len(t) : t[i].id = t[j].id => i = j}

\* _assign_officer called on its own: a territory with officers, and one without
RouteInputs ==
  {[status |-> "routing", state |-> st, officer |-> 0] :
     st \in {"Gujarat", "Maharashtra", "Kerala"}}

\* self._assign_officer(territory_state)
AssignCall ==
  /\ probe.status = "routing"
  /\ probe' = [probe EXCEPT !.status = "routed",
                            !.officer = assign_officer(officers, probe.state)]
  /\ UNCHANGED <<companies, sources, leads, outbox, officers, clock, last, batch>>

InitRoute ==
  /\ companies = SeedCompanies
  /\ sources = SeedSources
  /\ leads = <<>>
  /\ outbox = <<>>
  /\ officers \in OfficerTables
  /\ clock = 0
  /\ last = [signal |-> 0, fault |-> "none", result |-> ReturnNone, outcome |-> "init",
             company_id |-> 0, source_id |-> 0, log |-> <<>>]
  /\ batch = IdleBatch
  /\ probe \in RouteInputs

NextRoute == AssignCall

SpecRoute == InitRoute /\ [][NextRoute]_vars

\* an officers table in which the Maharashtra officer has notifications turned
\* off and the Gujarat officer is inactive
QuietOfficers == <<
  [id |-> 1, name |-> "Rajesh Kumar", email |-> "rajesh.kumar@hpcl.co.in",
   territory_state |-> "Maharashtra", is_active |-> TRUE, notification_enabled |-> FALSE],
  [id |-> 2, name |-> "Priya Sharma", email |-> "priya.sharma@hpcl.co.in",
   territory_state |-> "Gujarat", is_active |-> FALSE, notification_enabled |-> TRUE]
>>

\* the pipeline on the seeded officers and on the quiet ones
InitNotify ==
  /\ companies = SeedCompanies
  /\ sources = SeedSources
  /\ leads = <<>>
  /\ outbox = <<>>
  /\ officers \in {SeedOfficers, QuietOfficers}
  /\ clock = 0
  /\ last = [signal |-> 0, fault |-> "none", result |-> ReturnNone, outcome |-> "init",
             company_id |-> 0, source_id |-> 0, log |-> <<>>]
  /\ batch = IdleBatch
  /\ probe = NoProbe

SpecNotify == InitNotify /\ [][Next]_vars

\* markers of high and of medium intent, as a text may spell them
HighPool == <<"Tender", "RFQ">>
MediumPool == <<"expansion", "new plant", "Commissioning">>

\* terms of the FO entry: two keywords, one equipment, three industries
TermPool == <<"fuel oil", "heavy fuel", "kiln", "textile", "ceramic", "cement">>

\* the members of a pool that are chosen, in the pool's order
Chosen(pool, chosen) == SelectSeq(pool, LAMBDA m : m \in chosen)

\* a text that mentions the chosen terms and nothing else of interest
TextOf(terms) == "Acme Mills Pvt: " \o join(terms, ", ") \o "."

\* analyze_text on texts that hold any of the intent markers
IntentInputs ==
  {[status |-> "analyzing", high |-> h, medium |-> m,
    text |-> TextOf(Chosen(HighPool, h) \o Chosen(MediumPool, m)), intent |-> ""] :
     h \in SUBSET SeqToSet(HighPool), m \in SUBSET SeqToSet(MediumPool)}

\* intent_strength = self._calculate_intent_strength(text_lower), as analyze_text returns it
IntentCall ==
  /\ probe.status = "analyzing"
  /\ probe' = [probe EXCEPT !.status = "analyzed",
                            !.intent = analyze_text(probe.text).intent_strength]
  /\ UNCHANGED <<companies, sources, leads, outbox, officers, clock, last, batch>>

\* the scoring loop on two texts that hold any of the FO terms
ConfidenceInputs ==
  {[status |-> "scoring", text |-> <<TextOf(Chosen(TermPool, a)), TextOf(Chosen(TermPool, b))>>,
    terms |-> <<{}, {}>>, confidence |-> <<0, 0>>] :
     a \in SUBSET SeqToSet(TermPool), b \in SUBSET SeqToSet(TermPool)}

\* the matched terms and the confidence of the FO entry for each of the two texts
ConfidenceCall ==
  /\ probe.status = "scoring"
  /\ LET ps == [k \in 1..2 |-> ProductScore(product_keywords[1], lower(probe.text[k]))]
     IN  probe' = [probe EXCEPT
                     !.status = "scored",
                     !.terms = [k \in 1..2 |-> SeqToSet(ps[k].reasons)],
                     !.confidence = [k \in 1..2 |-> ps[k].score]]
  /\ UNCHANGED <<companies, sources, leads, outbox, officers, clock, last, batch>>

\* terms of several entries: FO equipment (boiler, kiln), an HSD keyword and an
\* HSD industry, an SKO keyword, and equipment shared by LSHS and Marine Bunker Fuel
RankPool == <<"boiler", "kiln", "diesel", "mining", "kerosene", "ship">>

\* analyze_text on texts that hold any of these terms
RankInputs ==
  {[status |-> "ranking", text |-> TextOf(Chosen(RankPool, t)),
    recommended |-> <<>>, confidence |-> <<>>, matched |-> {}] :
     t \in SUBSET SeqToSet(RankPool)}

\* recommended_products as analyze_text returns it, with the rounded score of
\* every taxonomy entry and the entries that matched a term
RankCall ==
  /\ probe.status = "ranking"
  /\ LET all == [k \in 1..Len(product_keywords) |->
                   ProductScore(product_keywords[k], lower(probe.text))]
     IN  probe' = [probe EXCEPT
                     !.status = "ranked",
                     !.recommended = analyze_text(probe.text).recommended_products,
                     !.confidence = [k \in 1..Len(all) |-> all[k].score],
                     !.matched = {k \in 1..Len(all) : all[k].reasons # <<>>}]
  /\ UNCHANGED <<companies, sources, leads, outbox, officers, clock, last, batch>>

InitAnalyze == Store /\ probe \in IntentInputs \cup ConfidenceInputs \cup RankInputs

NextAnalyze == IntentCall \/ ConfidenceCall \/ RankCall

SpecAnalyze == InitAnalyze /\ [][NextAnalyze]_vars

\* names two invocations may carry: a new one, the same in capitals, a longer
\* one, and the name of a seeded company
RaceNames == {"Acme Oils", "ACME OILS", "Acme Oils Ltd", "Tata Steel Limited"}

\* two invocations of _find_or_create_company, each with a session of its own,
\* both before their exact-match query
RaceInputs ==
  {[status |-> "racing", names |-> <<a, b>>, pc |-> <<"query", "query">>,
    passed |-> <<FALSE, FALSE>>, row |-> <<None, None>>, ids |-> <<0, 0>>, raised |-> <<FALSE, FALSE>>] :
     a \in RaceNames, b \in RaceNames}

\* invocation p runs its queries on the rows committed so far: it returns the
\* row it matches, or builds the Company it is about to add
RaceQuery(p) ==
  LET r == find_or_create_company(Session, [company_name |-> probe.names[p]], "none")
  IN  /\ probe.status = "racing"
      /\ probe.pc[p] = "query"
      /\ probe' = IF r.val \in 1..Len(companies)
                  THEN [probe EXCEPT !.pc[p] = "returned", !.ids[p] = r.val]
                  ELSE [probe EXCEPT !.pc[p] = "add", !.passed[p] = TRUE,
                                     !.row[p] = r.db.companies[r.val]]
      /\ UNCHANGED <<companies, sources, leads, outbox, officers, clock, last, batch>>

\* invocation p adds its Company and commits, against the rows committed by now
RaceCommit(p) ==
  LET c == db_commit(db_add(Session, "companies", 0, probe.row[p]), "company_commit", "none")
  IN  /\ probe.status = "racing"
      /\ probe.pc[p] = "add"
      /\ companies' = IF c.exc THEN companies ELSE c.db.companies
      /\ probe' = IF c.exc
                  THEN [probe EXCEPT !.pc[p] = "raised", !.raised[p] = TRUE]
                  ELSE [probe EXCEPT !.pc[p] = "returned", !.ids[p] = Len(c.db.companies)]
      /\ UNCHANGED <<sources, leads, outbox, officers, clock, last, batch>>

RaceLookup == \E p \in 1..2 : RaceQuery(p)

RaceCreate == \E p \in 1..2 : RaceCommit(p)

InitRace == Store /\ probe \in RaceInputs

NextRace == RaceLookup \/ RaceCreate

SpecRace == InitRace /\ [][NextRace]_vars

(* ---------------------------------------------------------------------- *)
(* Properties                                                             *)
(* ---------------------------------------------------------------------- *)
LastSignal == Signals[last.signal]

\* the company a lead's score was computed for
SizeOf(company_id) == Or(companies[company_id].company_size, "medium")

\* C1: process_signal never raises past its boundary: whatever fails inside
\* (company resolution, source bookkeeping, classification, a persistence write,
\* notification), the call ends by returning a lead id or None; a failure
\* returns None.
C1_NeverRaises ==
  /\ last.result.kind \in {"id", "none"}
  /\ last.result.kind = "id" => last.result.id \in 1..Len(leads)
  /\ last.outcome = "error" => last.result = ReturnNone

\* a call in which the lead insert failed has returned
C1_Witness ==
  /\ last.fault = "lead_commit"
  /\ last.outcome = "error"
  /\ last.result = ReturnNone

\* C2 (as claimed): a call that returns None because of an internal failure
\* leaves the Company, Source and Lead rows exactly as they were before the call.
C2_RollbackAtomic ==
  [][last'.outcome = "error" =>
       /\ companies' = companies
       /\ sources' = sources
       /\ leads' = leads]_vars

\* C3: every persisted Lead comes from a signal whose analysis holds at least
\* one recommendation and whose composite score is >= 30.
C3_LeadsPassGate ==
  \A k \in 1..Len(leads) :
    LET analysis == analyze(leads[k].signal_text)
    IN  /\ analysis.recommended_products # <<>>
        /\ calculate_lead_score(analysis, SizeOf(leads[k].company_id)) >= SCORE_GATE
        /\ leads[k].lead_score = calculate_lead_score(analysis, SizeOf(leads[k].company_id))
        /\ leads[k].recommended_products = analysis.recommended_products

\* a lead is persisted, and the last signal was turned down by the score gate
C3_Witness ==
  /\ Len(leads) > 0
  /\ last.outcome = "low_score"

\* a call got through steps 1 and 2 (its signal names a company and a source
\* domain), its text yields a recommendation, and no persistence write failed
ScoredCall(l) ==
  /\ l.signal # 0
  /\ l.company_id # 0
  /\ l.source_id # 0
  /\ l.fault \in {"none", "smtp"}
  /\ HasKey(Signals[l.signal], "signal_text")
  /\ analyze(Signals[l.signal].signal_text).recommended_products # <<>>

ScoreOfCall(l, table) ==
  calculate_lead_score(analyze(Signals[l.signal].signal_text),
                       Or(table[l.company_id].company_size, "medium"))

\* C4: with a non-empty company name, at least one recommendation and no
\* persistence failure, a score of 30.00 or more persists exactly one new Lead
\* and returns its id; a score below 30 returns None and persists no Lead.
C4_ScoreGateBoundary ==
  [][(clock' = clock + 1 /\ ScoredCall(last')) =>
       IF ScoreOfCall(last', companies') >= 3000
       THEN /\ Len(leads') = Len(leads) + 1
            /\ SubSeq(leads', 1, Len(leads)) = leads
            /\ last'.result = ReturnId(Len(leads'))
            /\ leads'[Len(leads')].lead_score = ScoreOfCall(last', companies')
       ELSE /\ leads' = leads
            /\ last'.result = ReturnNone]_vars

\* a lead whose score is exactly 30.00 has just been created
C4_Witness ==
  /\ last.outcome = "created"
  /\ leads[last.result.id].lead_score = 3000

\* C5: batch_process_signals goes through every signal whatever happens to
\* each: it never raises, processed is the number of signals handed in,
\* processed = created + skipped + errors, and created is the number of Leads
\* the batch persisted.
C5_BatchProcessesAll ==
  /\ batch.status # "raised"
  /\ batch.status = "returned" =>
       /\ batch.results.processed = batch.size
       /\ batch.results.processed
            = batch.results.created + batch.results.skipped + batch.results.errors
       /\ batch.results.created = batch.leads_after - batch.leads_before
  /\ batch.status = "running" =>
       /\ batch.results.processed + batch.todo = batch.size
       /\ batch.results.created = Len(leads) - batch.leads_before

\* a batch of two has returned: its first signal failed, its second made a lead
C5_Witness ==
  /\ batch.status = "returned"
  /\ batch.size >= 2
  /\ batch.failed >= 1
  /\ last.outcome = "created"

\* C6 (as claimed): the returned counters tell rejections from failures: errors
\* counts the signals whose processing hit an error, skipped the rejected ones.
C6_ErrorsCounted ==
  batch.status = "returned" =>
    /\ batch.results.errors = batch.failed
    /\ batch.results.skipped = batch.rejected

\* C7 (as claimed): processing an accepted signal a second time persists no
\* second Lead.
C7_Idempotent ==
  [][(last.outcome = "created" /\ last'.signal = last.signal /\ clock' = clock + 1)
       => Len(leads') = Len(leads)]_vars

\* the company the resolver hands back for a signal: the row of that name, or a
\* row whose stored normalized name is similar enough
ResolvesTo(signal_data, company) ==
  \/ company.name = strip(signal_data.company_name)
  \/ FuzzyMatch(fuzz_ratio(normalize(strip(signal_data.company_name)),
                           Or(company.normalized_name, "")))

\* C8: every persisted Lead's company_id is the id of an existing Company, the
\* one the resolver returned for the lead's signal.
C8_LeadReferencesCompany ==
  /\ \A k \in 1..Len(leads) : leads[k].company_id \in 1..Len(companies)
  /\ last.outcome = "created" =>
       /\ leads[last.result.id].company_id = last.company_id
       /\ ResolvesTo(LastSignal, companies[leads[last.result.id].company_id])

\* a lead was made for a company that the same call created
C8_Witness ==
  /\ last.outcome = "created"
  /\ \E k \in 1..Len(last.log) : last.log[k] = "company_commit"
  /\ leads[last.result.id].company_id = Len(companies)

\* C9: calculate_lead_score is within [0, 100] for 0 to 3 confidences in
\* [0, 1], every intent bucket, urgency in [0, 1] and every company size,
\* known or not; so is the lead_score of every persisted Lead.
C9_ScoreInRange ==
  /\ probe.status = "output" => probe.score \in 0..(100 * SCORE_CAP)
  /\ \A k \in 1..Len(leads) : leads[k].lead_score \in 0..(100 * SCORE_CAP)

\* the score of three full-confidence recommendations, high intent, full
\* urgency and an enterprise: the top of the range
C9_Witness ==
  /\ probe.status = "output"
  /\ Len(probe.confidences) = TOP_N
  /\ probe.score = 100 * SCORE_CAP

\* the resolver ran to its end on a non-empty name that matches no row exactly
FuzzyCase(l, before) ==
  /\ l.signal # 0
  /\ l.company_id # 0
  /\ \A k \in 1..Len(before) : before[k].name # strip(Signals[l.signal].company_name)

Similarity(signal_data, company) ==
  fuzz_ratio(normalize(strip(signal_data.company_name)), Or(company.normalized_name, ""))

\* the resolver has returned an existing row whose similarity is an accepted
\* one, or, no row having such a similarity, has created exactly one row
ResolvedBy(accepted, l, before, after) ==
  IF \E k \in 1..Len(before) : Similarity(Signals[l.signal], before[k]) \in accepted
  THEN /\ after = before
       /\ l.company_id \in 1..Len(before)
       /\ Similarity(Signals[l.signal], before[l.company_id]) \in accepted
  ELSE /\ Len(after) = Len(before) + 1
       /\ SubSeq(after, 1, Len(before)) = before
       /\ l.company_id = Len(after)
       /\ after[l.company_id].name = strip(Signals[l.signal].company_name)

AtLeastThreshold == {similarity \in 0..100 : similarity >= 85}
AboveThreshold == {similarity \in 0..100 : similarity > 85}

\* C10 (as claimed): with no exact match, a similarity >= 85 (85 included) to an
\* existing company resolves to that company and creates no row; otherwise
\* exactly one Company is created.
C10_ThresholdInclusive ==
  [][(clock' = clock + 1 /\ FuzzyCase(last', companies)) =>
       ResolvedBy(AtLeastThreshold, last', companies, companies')]_vars

\* C10 (amended): with no exact match, a similarity strictly above 85 to an
\* existing company resolves to such a company and creates no row; if every
\* similarity is 85 or less, exactly one Company is created.
C10_ThresholdStrict ==
  [][(clock' = clock + 1 /\ FuzzyCase(last', companies)) =>
       ResolvedBy(AboveThreshold, last', companies, companies')]_vars

\* "Asian Paints Ltd." (similarity exactly 85 to "asianpaints") has been given a row of its own
C10_Witness ==
  /\ last.signal # 0
  /\ LastSignal.company_name = "Asian Paints Ltd."
  /\ last.company_id > Len(SeedCompanies)
  /\ companies[last.company_id].name = "Asian Paints Ltd."
  /\ \E k \in 1..Len(SeedCompanies) : Similarity(LastSignal, companies[k]) = 85

\* the name the resolver works on: signal_data.get('company_name', '').strip()
NameOf(signal_data) == strip(Get(signal_data, "company_name", ""))

\* C11: the resolver is idempotent for repeated input: two calls in succession
\* with the same input give the same Company id, and the second call creates no
\* row, whether the first matched exactly, matched fuzzily or created the row.
C11_ResolveIdempotent ==
  probe.status = "resolving" =>
    \A k \in 2..Len(probe.done) :
      (probe.done[k] = probe.done[k - 1] /\ probe.ids[k - 1] # 0) =>
        /\ probe.ids[k] = probe.ids[k - 1]
        /\ probe.rows[k] = probe.rows[k - 1]
        /\ ~probe.raised[k]

\* the same new name twice: the first call created row 3, the second found it
C11_Witness ==
  /\ probe.status = "resolving"
  /\ Len(probe.done) = 2
  /\ probe.done[1] = probe.done[2]
  /\ probe.rows = <<Len(SeedCompanies) + 1, Len(SeedCompanies) + 1>>
  /\ probe.ids = <<Len(SeedCompanies) + 1, Len(SeedCompanies) + 1>>

\* company_name is missing, empty, or made of whitespace only
Blank(signal_data) ==
  \/ ~HasKey(signal_data, "company_name")
  \/ \A k \in 1..Len(signal_data.company_name) : IsSpace(CharAt(signal_data.company_name, k))

\* a step of the pipeline or of the resolver treats a blank name, and any other
\* name, as it should
BlankNameStep ==
  /\ (clock' = clock + 1 /\ Blank(Signals[last'.signal])) =>
        (/\ last'.result = ReturnNone
         /\ last'.outcome = "no_company"
         /\ last'.log = <<>>
         /\ UNCHANGED <<companies, sources, leads, outbox>>)
  /\ (/\ clock' = clock + 1
      /\ ~Blank(Signals[last'.signal])
      /\ last'.fault \notin {"company_query", "company_commit"}) =>
        (/\ last'.outcome # "no_company"
         /\ last'.company_id \in 1..Len(companies'))
  /\ (probe.status = "resolving" /\ probe'.done # probe.done) =>
        (IF Blank(probe'.done[Len(probe'.done)])
         THEN /\ probe'.ids[Len(probe'.done)] = 0
              /\ ~probe'.raised[Len(probe'.done)]
              /\ companies' = companies
         ELSE /\ probe'.ids[Len(probe'.done)] \in 1..Len(companies')
              /\ ~probe'.raised[Len(probe'.done)])

\* C12: a signal whose company_name is missing, empty, or empty after trimming
\* makes the resolver return no company and process_signal return None at step 1
\* before any other statement runs: no Company, Source or Lead row is created or
\* changed and no notification is emitted. For every other name the resolver
\* returns a Company row.
C12_BlankNameAborts == [][BlankNameStep]_vars

\* after a first call that made a lead, a signal with a blank name was turned
\* down at step 1
C12_Witness ==
  /\ clock = 2
  /\ Len(leads) = 1
  /\ Blank(LastSignal)
  /\ last.outcome = "no_company"
  /\ last.log = <<>>

RECURSIVE remove_whitespace(_)
remove_whitespace(s) ==
  IF s = "" THEN ""
  ELSE IF IsSpace(Head(s)) THEN remove_whitespace(Tail(s))
  ELSE SubSeq(s, 1, 1) \o remove_whitespace(Tail(s))

\* a name up to letter case and whitespace
Canonical(name) == remove_whitespace(lower(name))

\* the number of company rows before the k-th resolver call of the run
RowsBefore(k) == IF k = 1 THEN Len(SeedCompanies) ELSE probe.rows[k - 1]

\* the k-th call of the run created a row
CreatedAt(k) == probe.ids[k] # 0 /\ probe.rows[k] = RowsBefore(k) + 1

\* C13 (as claimed): when the resolver has created a Company for a name, a
\* second name that differs from it only in letter case and/or whitespace has
\* the same normalized_name and resolves to that Company, creating no row.
C13_NormalizedInsensitive ==
  probe.status = "resolving" =>
    \A k \in 2..Len(probe.done) :
      (/\ ~Blank(probe.done[k - 1])
       /\ ~Blank(probe.done[k])
       /\ CreatedAt(k - 1)
       /\ Canonical(probe.done[k].company_name)
            = Canonical(probe.done[k - 1].company_name)) =>
        (/\ normalize(strip(probe.done[k].company_name))
              = companies[probe.ids[k - 1]].normalized_name
         /\ probe.ids[k] = probe.ids[k - 1]
         /\ probe.rows[k] = probe.rows[k - 1])

\* the positions of the active officers, and of those of a territory
ActiveOfficers == {k \in 1..Len(officers) : officers[k].is_active}
OfficersOf(state) == {k \in ActiveOfficers : officers[k].territory_state = state}

\* C14 (as claimed): _assign_officer returns an active officer of the territory
\* when there is one; otherwise the active officer with the lowest id, if any
\* officer is active; otherwise none. It never returns an inactive officer.
C14_AssignLowestId ==
  probe.status = "routed" =>
    IF OfficersOf(probe.state) # {}
    THEN probe.officer \in {officers[k].id : k \in OfficersOf(probe.state)}
    ELSE IF ActiveOfficers # {}
    THEN /\ probe.officer \in {officers[k].id : k \in ActiveOfficers}
         /\ \A k \in ActiveOfficers : probe.officer <= officers[k].id
    ELSE probe.officer = 0

\* C15 (as claimed): whenever an active officer exists when a signal is
\* accepted, the persisted Lead has an assigned officer, whether or not a
\* territory could be determined; a Lead is unassigned only when no officer is
\* active.
C15_AcceptedLeadAssigned ==
  \A k \in 1..Len(leads) :
    ActiveOfficers # {} => leads[k].assigned_officer_id # 0

\* C16 helper: the notification requests made for lead k
RequestsFor(k) == {n \in 1..Len(outbox) : outbox[n].lead_id = k}

\* lead k has an officer, and that officer has notifications enabled
Notifiable(k) ==
  /\ leads[k].assigned_officer_id # 0
  /\ OfficerById(officers, leads[k].assigned_officer_id).notification_enabled

\* position of a statement in the log of the last call, 0 if it did not run
LogIndex(log, what) ==
  IF \E n \in 1..Len(log) : log[n] = what
  THEN CHOOSE n \in 1..Len(log) : log[n] = what
  ELSE 0

\* a call that emits a request emits one, for the lead it has just committed
NotifyStep ==
  outbox' # outbox =>
    /\ clock' = clock + 1
    /\ Len(outbox') = Len(outbox) + 1
    /\ SubSeq(outbox', 1, Len(outbox)) = outbox
    /\ Len(leads') = Len(leads) + 1
    /\ outbox'[Len(outbox')].lead_id = Len(leads')
    /\ outbox'[Len(outbox')].officer_id = leads'[Len(leads')].assigned_officer_id
    /\ last'.result = ReturnId(Len(leads'))
    /\ LogIndex(last'.log, "lead_commit") # 0
    /\ LogIndex(last'.log, "lead_commit") < LogIndex(last'.log, "smtp")

\* each lead has one request if it has an officer with notifications enabled,
\* none otherwise, and every request is for a persisted lead and its officer
NotifyInv ==
  /\ \A k \in 1..Len(leads) :
       Cardinality(RequestsFor(k)) = IF Notifiable(k) THEN 1 ELSE 0
  /\ \A n \in 1..Len(outbox) :
       /\ outbox[n].lead_id \in 1..Len(leads)
       /\ outbox[n].officer_id = leads[outbox[n].lead_id].assigned_officer_id

\* C16: a notification request is emitted for a signal if and only if a Lead was
\* persisted for it, an officer was assigned and that officer has notifications
\* enabled; it is emitted after the Lead is committed, at most once per Lead.
C16_NotifyIffAssigned == [][NotifyStep /\ NotifyInv']_vars

\* two leads: the first has no officer and no request, the second has an
\* officer with notifications enabled and one request
C16_Witness ==
  /\ Len(leads) = 2
  /\ leads[1].assigned_officer_id = 0
  /\ RequestsFor(1) = {}
  /\ Notifiable(2)
  /\ Cardinality(RequestsFor(2)) = 1

\* a call whose notification could not be delivered has still created its lead
\* and returned its id, and no call changes a lead that exists
BestEffortStep ==
  /\ SubSeq(leads', 1, Len(leads)) = leads
  /\ (clock' = clock + 1 /\ last'.fault = "smtp") =>
        (/\ last'.outcome = "created"
         /\ Len(leads') = Len(leads) + 1
         /\ last'.result = ReturnId(Len(leads'))
         /\ leads'[Len(leads')].company_id = last'.company_id
         /\ LogIndex(last'.log, "rollback") = 0
         /\ Len(outbox') = Len(outbox) + 1
         /\ ~outbox'[Len(outbox')].sent)

\* C17: notification is best-effort: when delivering it fails, the created Lead
\* stays persisted unchanged, nothing is rolled back and process_signal still
\* returns the Lead's id.
C17_NotificationBestEffort == [][BestEffortStep]_vars

\* the delivery failed in the last call, and the lead it returned is there
C17_Witness ==
  /\ last.fault = "smtp"
  /\ last.result.kind = "id"
  /\ last.result.id = Len(leads)
  /\ RequestsFor(last.result.id) # {}
  /\ \A n \in RequestsFor(last.result.id) : ~outbox[n].sent

\* C18: intent strength goes by presence, not count: high whenever a high-intent
\* marker occurs in the text, however many medium-intent markers occur with it;
\* medium when no high-intent marker but a medium-intent one occurs; low otherwise.
C18_IntentByPresence ==
  probe.status = "analyzed" =>
    probe.intent = IF probe.high # {} THEN "high"
                   ELSE IF probe.medium # {} THEN "medium"
                   ELSE "low"

\* one high-intent marker among three medium-intent ones: high
C18_Witness ==
  /\ probe.status = "analyzed"
  /\ Cardinality(probe.high) = 1
  /\ Cardinality(probe.medium) = 3
  /\ probe.intent = "high"

\* C19 (as claimed): for one taxonomy entry, a text that matches more of the
\* entry's terms never gets a lower confidence than a text that matches fewer,
\* and the confidence never exceeds 1.0.
C19_MonotoneInCount ==
  probe.status = "scored" =>
    /\ \A k \in 1..2 : probe.confidence[k] <= 100
    /\ Cardinality(probe.terms[1]) >= Cardinality(probe.terms[2]) =>
         probe.confidence[1] >= probe.confidence[2]

\* C19 (amended): for one taxonomy entry, a text that matches every term another
\* text matches, and possibly more, never gets a lower confidence than that
\* text, and the confidence never exceeds 1.0.
C19_MonotoneInTerms ==
  probe.status = "scored" =>
    /\ \A k \in 1..2 : probe.confidence[k] \in 0..100
    /\ probe.terms[2] \subseteq probe.terms[1] =>
         probe.confidence[1] >= probe.confidence[2]

\* all six terms against three of them: 1.0 (capped from 1.7) against less
C19_Witness ==
  /\ probe.status = "scored"
  /\ probe.terms[2] \subseteq probe.terms[1]
  /\ Cardinality(probe.terms[1]) = 6
  /\ Cardinality(probe.terms[2]) = 3
  /\ probe.confidence[1] = 100
  /\ probe.confidence[2] < 100

\* C20 helper: the state a lead is routed and contacted by
PrefixOf(text, prefix) == Len(text) >= Len(prefix) /\ SubSeq(text, 1, Len(prefix)) = prefix

\* C20 (as claimed): processing the signal {company_name 'Adani Power Ltd',
\* text 'Adani Power plans 500MW expansion requiring furnace oil for boiler
\* operations, tender expected Q2', state 'Gujarat'} yields a recommendation
\* list headed by FO whose rationale cites 'furnace oil' and 'boiler', intent
\* high, urgency at least 0.7, and a persisted Lead with territory_state
\* 'Gujarat', assigned to the active Gujarat officer if there is one, whose
\* next_action begins 'Contact immediately'.
C20_AdaniScenario ==
  (last.signal = 6 /\ last.fault = "none") =>
    /\ last.outcome = "created"
    /\ last.result.kind = "id"
    /\ last.result.id \in 1..Len(leads)
    /\ LET lead == leads[last.result.id]
           head == lead.recommended_products[1]
       IN  /\ lead.signal_text = LastSignal.signal_text
           /\ head.product = "FO"
           /\ Contains(head.reason, "furnace oil")
           /\ Contains(head.reason, "boiler")
           /\ lead.intent_strength = "high"
           /\ analyze(lead.signal_text).urgency_score >= 70
           /\ lead.territory_state = "Gujarat"
           /\ OfficersOf("Gujarat") # {} =>
                \E k \in OfficersOf("Gujarat") : lead.assigned_officer_id = officers[k].id
           /\ PrefixOf(lead.next_action, "Contact immediately")

\* C21 helper: the rows whose similarity to the signal's name is above the threshold
Candidates(signal_data, before) ==
  {k \in 1..Len(before) : Similarity(signal_data, before[k]) > 85}

\* the most similar candidate, and among equally similar ones the lowest id
BestCandidate(signal_data, before) ==
  CHOOSE k \in Candidates(signal_data, before) :
    \A j \in Candidates(signal_data, before) :
      \/ Similarity(signal_data, before[j]) < Similarity(signal_data, before[k])
      \/ (Similarity(signal_data, before[j]) = Similarity(signal_data, before[k]) /\ k <= j)

C21_Step ==
  (/\ clock' = clock + 1
   /\ FuzzyCase(last', companies)
   /\ Candidates(Signals[last'.signal], companies) # {}) =>
     (last'.company_id = BestCandidate(Signals[last'.signal], companies))

\* C21 (as claimed): when several existing companies have a similarity above the
\* threshold to the input's normalized name, the resolver returns the one with
\* the highest similarity, and among equally similar ones the lowest id.
C21_ResolvesToMostSimilar == [][C21_Step]_vars

\* C22 helper: the entries of the taxonomy, by position
Entries == 1..Len(product_keywords)

\* entry k is ranked before entry j: a higher confidence, or the same and declared earlier
RankedBefore(k, j) ==
  \/ probe.confidence[k] > probe.confidence[j]
  \/ (probe.confidence[k] = probe.confidence[j] /\ k < j)

\* the place of entry k among the entries with a non-zero score
PlaceOf(k) == 1 + Cardinality({j \in Entries : probe.confidence[j] > 0 /\ RankedBefore(j, k)})

\* C22 (as claimed): analyze returns at most 3 recommendations, exactly the (up
\* to) three entries with the highest non-zero scores, by descending confidence
\* with ties in declaration order; no entry of score 0 is recommended, and the
\* list is empty exactly when no term of any entry matches.
C22_TopThreeStable ==
  probe.status = "ranked" =>
    /\ Len(probe.recommended) <= 3
    /\ Len(probe.recommended) =
         Min(3, Cardinality({k \in Entries : probe.confidence[k] > 0}))
    /\ \A p \in 1..Len(probe.recommended) :
         \E k \in Entries :
           /\ probe.confidence[k] > 0
           /\ PlaceOf(k) = p
           /\ probe.recommended[p].product = product_keywords[k].product
           /\ probe.recommended[p].confidence = probe.confidence[k]
    /\ (probe.recommended = <<>>) <=> (probe.matched = {})

\* C23 helpers: the values of the claim, and the claimed sum for the arguments of
\* the probe, times 100 * n (n the number of recommendations, 1 if none)
IntentValue == [high |-> 30, medium |-> 20, low |-> 10]
SizeValue == [enterprise |-> 10, large |-> 8, medium |-> 6, small |-> 4]
Recommendations == IF Len(probe.confidences) = 0 THEN 1 ELSE Len(probe.confidences)

ClaimedSum ==
  40 * SumSeq(probe.confidences)
    + Recommendations *
        (100 * IntentValue[probe.intent_strength] + 20 * probe.urgency_score
           + 100 * (IF probe.company_size \in DOMAIN SizeValue
                    THEN SizeValue[probe.company_size] ELSE 6))

ClaimedScore == Min(100 * 100 * Recommendations, ClaimedSum)

\* C23 (as claimed): calculate_lead_score equals min(100, mean confidence x 40 +
\* intent value + urgency x 20 + size value), the confidence term being 0
\* without recommendations.
C23_ExactSum ==
  (probe.status = "output" /\ probe.intent_strength \in DOMAIN IntentValue) =>
    probe.score * Recommendations = ClaimedScore

\* C23 (amended): calculate_lead_score is that value rounded to two decimal
\* places: it differs from it by at most half a hundredth, and without
\* recommendations it is exactly min(100, intent + urgency x 20 + size).
C23_RoundedSum ==
  (probe.status = "output" /\ probe.intent_strength \in DOMAIN IntentValue) =>
    /\ 2 * (probe.score * Recommendations - ClaimedScore) <= Recommendations
    /\ 2 * (ClaimedScore - probe.score * Recommendations) <= Recommendations
    /\ Len(probe.confidences) = 0 =>
         probe.score = Min(100 * 100,
                           100 * IntentValue[probe.intent_strength] + 20 * probe.urgency_score
                             + 100 * (IF probe.company_size \in DOMAIN SizeValue
                                      THEN SizeValue[probe.company_size] ELSE 6))

\* confidences 0.2, 0, 0 of a micro company, low intent, no urgency: the mean
\* times 40 is 2.666..., and the score is 18.67
C23_Witness ==
  /\ probe.status = "output"
  /\ probe.confidences = <<20, 0, 0>>
  /\ probe.intent_strength = "low"
  /\ probe.urgency_score = 0
  /\ probe.company_size = "micro"
  /\ probe.score = 1867

\* C24 helper: a state that is given: neither missing nor empty
Given(state) == state # None /\ state # ""

\* the territory by precedence: the signal's state, else the company's, else
\* the first location extracted from the text, else none
TerritoryBy(signal_data, company) ==
  IF HasKey(signal_data, "state") /\ Given(signal_data.state) THEN signal_data.state
  ELSE IF Given(company.state) THEN company.state
  ELSE IF locate(signal_data.signal_text) # <<>> THEN locate(signal_data.signal_text)[1]
  ELSE None

C24_Step ==
  (clock' = clock + 1 /\ last'.outcome = "created") =>
    (leads'[last'.result.id].territory_state =
       TerritoryBy(Signals[last'.signal], companies'[leads'[last'.result.id].company_id]))

\* C24: the territory of a persisted Lead is the signal's state if supplied and
\* non-empty; otherwise the resolved company's state if set; otherwise the
\* first location extracted from the text; otherwise none.
C24_TerritoryPrecedence == [][C24_Step]_vars

\* one lead routed by the signal's state although its company has another and
\* the text names a third, and one routed by the first location of its text
C24_Witness ==
  /\ Len(leads) = 2
  /\ leads[1].territory_state = "Gujarat"
  /\ companies[leads[1].company_id].state = "Maharashtra"
  /\ locate(leads[1].signal_text) = <<"Karnataka">>
  /\ leads[2].territory_state = "Gujarat"
  /\ companies[leads[2].company_id].state = ""
  /\ locate(leads[2].signal_text) = <<"Gujarat", "Rajasthan">>

\* C25 helper: the step function of the claim, urgency in hundredths
DaysFor(urgency) ==
  IF urgency >= 80 THEN 7 ELSE IF urgency >= 60 THEN 14 ELSE IF urgency >= 40 THEN 30 ELSE 60

\* C25: urgency_days is the step function of urgency: >= 0.8 gives 7, >= 0.6
\* gives 14, >= 0.4 gives 30, otherwise 60; it never grows with urgency, and the
\* urgency_days of every persisted Lead is one of 7, 14, 30, 60.
C25_UrgencyDaysStep ==
  /\ probe.status = "days" =>
       /\ \A k \in 1..2 : probe.urgency_days[k] = DaysFor(probe.urgency_score[k])
       /\ probe.urgency_score[1] <= probe.urgency_score[2] =>
            probe.urgency_days[1] >= probe.urgency_days[2]
  /\ \A k \in 1..Len(leads) : leads[k].urgency_days \in {7, 14, 30, 60}

\* just below the lowest threshold against exactly the highest: 60 days and 7
C25_Witness ==
  /\ probe.status = "days"
  /\ probe.urgency_score = <<39, 80>>
  /\ probe.urgency_days = <<60, 7>>

\* C26 helpers: both invocations are over, and both had passed the lookup
RaceOver == probe.status = "racing" /\ \A p \in 1..2 : probe.pc[p] \in {"returned", "raised"}
BothPassed == \A p \in 1..2 : probe.passed[p]

\* the rows that carry a name
RowsNamed(name) == {k \in 1..Len(companies) : companies[k].name = name}

\* C26 (as claimed): two concurrent invocations for the same unseen company name
\* that both pass the lookup both create a Company row, which leaves duplicate
\* rows for that name.
C26_RaceDuplicates ==
  (RaceOver /\ BothPassed /\ probe.names[1] = probe.names[2]) =>
    /\ Cardinality(RowsNamed(probe.names[1])) = 2
    /\ \A p \in 1..2 : ~probe.raised[p]

\* C26 (amended): two concurrent invocations for the same unseen company name
\* can both pass the lookup, but only one creates the row: the other's commit
\* violates the unique constraint on Company.name and raises, so no two rows
\* ever carry the same name. Invocations whose names differ but normalize alike
\* both create a row, which leaves two rows with one normalized_name.
C26_RaceUniqueName ==
  /\ \A j, k \in 1..Len(companies) : companies[j].name = companies[k].name => j = k
  /\ (RaceOver /\ BothPassed) =>
       IF probe.names[1] = probe.names[2]
       THEN /\ Cardinality(RowsNamed(probe.names[1])) = 1
            /\ \E p \in 1..2 : probe.raised[p] /\ ~probe.raised[3 - p]
       ELSE /\ \A p \in 1..2 : ~probe.raised[p] /\ RowsNamed(probe.names[p]) = {probe.ids[p]}
            /\ Len(companies) = Len(SeedCompanies) + 2

\* both invocations passed the lookup for "Acme Oils": the first created row 3,
\* the second raised at its commit
C26_Witness ==
  /\ RaceOver
  /\ BothPassed
  /\ probe.names = <<"Acme Oils", "Acme Oils">>
  /\ probe.ids = <<Len(SeedCompanies) + 1, 0>>
  /\ probe.raised = <<FALSE, TRUE>>
  /\ Len(companies) = Len(SeedCompanies) + 1

\* "Acme Oils" and "ACME OILS" raced: two rows with the normalized_name "acmeoils"
C26_WitnessNormalized ==
  /\ RaceOver
  /\ Cardinality({k \in 1..Len(companies) : companies[k].normalized_name = "acmeoils"}) = 2

\* C27 helper: table `after` is table `before` with at most one row appended
InsertOnly(before, after) ==
  /\ Len(after) \in {Len(before), Len(before) + 1}
  /\ SubSeq(after, 1, Len(before)) = before

C27_Step ==
  /\ InsertOnly(companies, companies')
  /\ InsertOnly(leads, leads')
  /\ \A k \in 1..Len(leads') : leads'[k].status = "new"

\* C27: a process call only inserts Company and Lead rows: it never updates or
\* deletes an existing Company, also when the signal carries other hints than
\* the matched company holds, and never changes an existing Lead; every Lead it
\* persists has status new, and no later call changes that status.
C27_InsertOnly == [][C27_Step]_vars

\* after an earlier lead, a signal with state Gujarat matched the seeded Tata
\* Steel of Maharashtra and became a second lead: the company row is as seeded
C27_Witness ==
  /\ Len(leads) = 2
  /\ last.outcome = "created"
  /\ LastSignal.company_name = "Tata Steel Limited"
  /\ LastSignal.state = "Gujarat"
  /\ last.company_id = 1
  /\ companies[1] = SeedCompanies[1]
  /\ companies[1].state = "Maharashtra"
  /\ \A k \in 1..2 : leads[k].status = "new"

\* C28 helpers: the call just made was rejected, for want of a recommendation or of score
Rejected(l) == l.outcome \in {"no_recommendations", "low_score"}

\* the sources after the call: the row of the domain, created if there was
\* none, carries the time of the call; every other row is as it was
SourceStamped(before, after, domain, now) ==
  LET seen == {k \in 1..Len(before) : before[k].domain = domain}
  IN  /\ InsertOnly([k \in 1..Len(before) |-> [before[k] EXCEPT !.last_crawled = 0]],
                    [k \in 1..Len(after) |-> [after[k] EXCEPT !.last_crawled = 0]])
      /\ Len(after) = Len(before) + (IF seen = {} THEN 1 ELSE 0)
      /\ \A k \in 1..Len(after) :
           IF after[k].domain = domain THEN after[k].last_crawled = now
           ELSE after[k] = before[k]

C28_Step ==
  (clock' = clock + 1 /\ Rejected(last')) =>
    (/\ last'.company_id # 0
     /\ leads' = leads
     /\ outbox' = outbox
     /\ officers' = officers
     /\ InsertOnly(companies, companies')
     /\ SourceStamped(sources, sources', Signals[last'.signal].source_domain, clock'))

\* C28: a signal that resolves to a company but is rejected (no recommendation,
\* or a score below 30) adds no Lead, and its bookkeeping stays committed: the
\* only persistent effects are at most one new Company row and the Source row
\* of signal.source_domain, created if unseen, with its last-seen time stamped.
C28_RejectedBookkeeping == [][C28_Step]_vars

\* the article on "Asian Paints Ltd." scored below 30: a company and a source
\* were created for it, stamped with the time of the call, and no lead
C28_Witness ==
  /\ clock = 1
  /\ last.outcome = "low_score"
  /\ leads = <<>>
  /\ Len(companies) = Len(SeedCompanies) + 1
  /\ companies[Len(companies)].name = "Asian Paints Ltd."
  /\ Len(sources) = Len(SeedSources) + 1
  /\ sources[Len(sources)].domain = "economictimes.indiatimes.com"
  /\ sources[Len(sources)].last_crawled = clock

\* C29: under one-at-a-time processing, from a store whose Company names and
\* normalized_names are non-null and pairwise distinct, after any sequence of
\* calls no two Company rows share a name and no two share a normalized_name.
C29_CompaniesDistinct ==
  \A j, k \in 1..Len(companies) :
    j # k =>
      /\ companies[j].name # None
      /\ companies[j].normalized_name # None
      /\ companies[j].name # companies[k].name
      /\ companies[j].normalized_name # companies[k].normalized_name

\* "B P" was given a row, and "b  p", another name of the same normalized_name,
\* was resolved to that row
C29_Witness ==
  /\ probe.status = "resolving"
  /\ Len(probe.done) = 2
  /\ NameOf(probe.done[1]) = "B P"
  /\ NameOf(probe.done[2]) = "b  p"
  /\ probe.ids = <<Len(SeedCompanies) + 1, Len(SeedCompanies) + 1>>
  /\ Len(companies) = Len(SeedCompanies) + 1
  /\ companies[Len(companies)].normalized_name = "bp"

\* C30 helper: the probe holds what analyze can return with a recommendation:
\* every confidence is at least that of a single industry match
Recommended ==
  /\ Len(probe.confidences) >= 1
  /\ \A k \in 1..Len(probe.confidences) : probe.confidences[k] >= 20

\* C30: only low-intent signals can be rejected by the score gate: with at
\* least one recommendation and intent high or medium the score is at least
\* 30, for every urgency and every company size.
C30_GateRejectsLowIntentOnly ==
  /\ (probe.status = "output" /\ Recommended /\ probe.intent_strength \in {"high", "medium"}) =>
       probe.score >= 100 * 30
  /\ (last.outcome = "low_score") =>
       analyze(LastSignal.signal_text).intent_strength = "low"

\* one recommendation of confidence 0.2, medium intent, no urgency, a small
\* company: 8 + 20 + 0 + 4, the least such score
C30_Witness ==
  /\ probe.status = "output"
  /\ probe.confidences = <<20>>
  /\ probe.intent_strength = "medium"
  /\ probe.urgency_score = 0
  /\ probe.company_size = "small"
  /\ probe.score = 100 * 32
====
